---- MODULE Spec2Model ----
(***************************************************************************)
(* A model of the breadth-first crawl loop of web_crawler.py: the frontier *)
(* queue, the visited set, the PDF dedup set, the crawl log, the errors    *)
(* list and the files written, together with the pure URL helpers the loop *)
(* calls (normalize_url, is_same_domain, is_valid_url, urljoin).           *)
(*                                                                         *)
(* Strings are modelled as sequences of tokens: a path "/x.pdf" is         *)
(* <<"/", "x", ".pdf">>.  A URL string is kept in the form urlparse gives  *)
(* for it, a record of scheme, netloc, path, query and fragment; the path  *)
(* keeps the text of the params part (";params") that urlparse splits off. *)
(*                                                                         *)
(* A second part models one call of PDFPipeline.process_single_pdf of      *)
(* pipeline.py: the scripts it runs, in order, and the files it tests.     *)
(***************************************************************************)
EXTENDS Integers, Sequences, FiniteSets, TLC

(***************************************************************************)
(* Bounds of the model.                                                    *)
(***************************************************************************)
\* the number of <a>/<embed> tags the whole site carries, over all its pages
MaxSiteTags == 2

(***************************************************************************)
(* Strings and URLs.                                                       *)
(***************************************************************************)
None == <<>>
Some(v) == <<v>>

\* Python truthiness of an Optional[int]: None and 0 are falsy
Truthy(opt) == opt # None /\ opt[1] # 0

Url(scheme, netloc, path, query, fragment) ==
    [scheme |-> scheme, netloc |-> netloc, path |-> path,
     query |-> query, fragment |-> fragment]

\* the empty string, as a URL
EmptyUrl == Url("", "", <<>>, <<>>, <<>>)
\* the string "direct" (found_on of a PDF met as a response)
DirectMark == Url("", "", <<"direct">>, <<>>, <<>>)

\* schemes that urllib lists in uses_netloc / uses_relative (those modelled)
UsesNetloc == {"http", "https"}
UsesRelative == {"http", "https"}

StartsWith(s, p) == Len(s) >= Len(p) /\ SubSeq(s, 1, Len(p)) = p

\* str.rstrip("/")
RECURSIVE RStripSlash(_)
RStripSlash(s) ==
    IF s # <<>> /\ s[Len(s)] = "/" THEN RStripSlash(SubSeq(s, 1, Len(s) - 1)) ELSE s

\* schemes that urllib lists in uses_params (those modelled)
UsesParams == {"", "http", "https"}

\* _splitparams(url): the path text is cut at the first ";" of its last segment
SplitParams(t) ==
    LET slashes == { i \in 1..Len(t) : t[i] = "/" }
        last == IF slashes = {} THEN 0 ELSE CHOOSE i \in slashes : \A j \in slashes : j <= i
        semis == { i \in 1..Len(t) : t[i] = ";" /\ i > last }
    IN  IF semis = {} THEN <<t, <<>>>>
        ELSE LET i == CHOOSE k \in semis : \A j \in semis : k <= j
             IN  <<SubSeq(t, 1, i - 1), SubSeq(t, i + 1, Len(t))>>

\* urlparse(url).path and .params of a URL string, whose record keeps the two as
\* one text
ParsedPath(u) == IF u.scheme \in UsesParams THEN SplitParams(u.path)[1] ELSE u.path
ParsedParams(u) == IF u.scheme \in UsesParams THEN SplitParams(u.path)[2] ELSE <<>>

\* urlunparse puts "path;params" only for params that are not empty
WithParams(path, params) == IF params # <<>> THEN path \o <<";">> \o params ELSE path

\* urlunparse(parts), as the token sequence of the string it returns
Unparse(u) ==
    LET withNet == u.netloc # "" \/
                   (u.scheme # "" /\ u.scheme \in UsesNetloc /\ ~StartsWith(u.path, <<"/", "/">>))
        p1 == IF withNet /\ u.path # <<>> /\ u.path[1] # "/" THEN <<"/">> \o u.path ELSE u.path
        p2 == IF withNet THEN <<"//", u.netloc>> \o p1 ELSE p1
        p3 == IF u.scheme # "" THEN <<u.scheme \o ":">> \o p2 ELSE p2
        p4 == IF u.query # <<>> THEN p3 \o <<"?">> \o u.query ELSE p3
    IN  IF u.fragment # <<>> THEN p4 \o <<"#">> \o u.fragment ELSE p4

\* urlparse(urlunparse(parts)): the record a URL string built from parts parses to
Reparse(u) ==
    LET withNet == u.netloc # "" \/
                   (u.scheme # "" /\ u.scheme \in UsesNetloc /\ ~StartsWith(u.path, <<"/", "/">>))
    IN  IF withNet
        THEN [u EXCEPT !.path = IF u.path # <<>> /\ u.path[1] # "/"
                                 THEN <<"/">> \o u.path ELSE u.path]
        ELSE IF u.scheme \in UsesNetloc /\ StartsWith(u.path, <<"/", "/">>)
             \* "scheme://rest": the text after the two slashes is read as the netloc
             THEN LET rest == SubSeq(u.path, 3, Len(u.path))
                  IN  IF rest # <<>> /\ rest[1] # "/"
                      THEN [u EXCEPT !.netloc = rest[1], !.path = SubSeq(rest, 2, Len(rest))]
                      ELSE [u EXCEPT !.path = rest]
             ELSE u

\* normalize_url(url): drop the fragment, strip the trailing slashes of the path
\* unless the path is exactly "/", rebuild the string
normalize_url(u) ==
    LET parsed == ParsedPath(u)
        path == IF parsed # <<"/">> THEN RStripSlash(parsed) ELSE <<"/">>
    IN  Reparse([u EXCEPT !.fragment = <<>>, !.path = WithParams(path, ParsedParams(u))])

\* is_same_domain(url, base_domain)
is_same_domain(u, base_domain) == u.netloc = base_domain \/ u.netloc = ""

\* the denylisted static-asset extensions of is_valid_url
SkipExts == {".jpg", ".jpeg", ".png", ".gif", ".svg", ".ico", ".css", ".js", ".woff",
             ".woff2", ".ttf", ".eot", ".mp4", ".mp3", ".zip", ".tar", ".gz"}
SkipWords == {"mailto:", "tel:", "javascript:"}

\* is_valid_url(url): the scheme test, then the skip patterns searched in the string
is_valid_url(u) ==
    LET s == Unparse(u)
    IN  /\ ~(u.scheme # "" /\ u.scheme \notin {"http", "https"})
        /\ \A i \in 1..Len(s) : s[i] \notin SkipWords
        /\ ~(s # <<>> /\ s[Len(s)] = "#")
        /\ ~(s # <<>> /\ s[Len(s)] \in SkipExts)

\* the directory part of a base path that urljoin keeps: all up to the last "/"
RECURSIVE DirOf(_)
DirOf(p) ==
    IF p = <<>> THEN <<"/">>
    ELSE IF p[Len(p)] = "/" THEN p ELSE DirOf(SubSeq(p, 1, Len(p) - 1))

\* urljoin(base, url) for a non-empty base; no "." or ".." segments are modelled
urljoin(base, h) ==
    IF h = EmptyUrl THEN base
    ELSE LET scheme == IF h.scheme = "" THEN base.scheme ELSE h.scheme
             \* the href's path text as urlunparse writes it back
             hpath == WithParams(ParsedPath(h), ParsedParams(h))
         IN  IF scheme # base.scheme \/ scheme \notin UsesRelative THEN h
             ELSE IF h.netloc # ""
                  THEN Reparse([h EXCEPT !.scheme = scheme, !.path = hpath])
             ELSE IF h.path = <<>>
                  THEN Reparse([h EXCEPT !.scheme = scheme, !.netloc = base.netloc,
                                         !.path = base.path,
                                         !.query = IF h.query = <<>> THEN base.query
                                                   ELSE h.query])
                  ELSE Reparse([h EXCEPT !.scheme = scheme, !.netloc = base.netloc,
                                         !.path = IF hpath # <<>> /\ hpath[1] = "/" THEN hpath
                                                  ELSE DirOf(base.path) \o hpath])

\* str.lower().endswith(".pdf") on a raw href or src
EndsWithPdf(h) ==
    LET s == Unparse(h) IN s # <<>> /\ s[Len(s)] = ".pdf"


(***************************************************************************)
(* The site: what the pages carry and what the server answers.             *)
(***************************************************************************)
Host == "a.com"
P(path) == Url("", "", path, <<>>, <<>>)
ATag(h) == [tag |-> "a", ref |-> h]
EmbedTag(h) == [tag |-> "embed", ref |-> h]

\* the hrefs and srcs the pages of the site may carry (already stripped)
TagUniverse ==
    { ATag(P(<<"/", "p">>)),
      ATag(P(<<"/", "p", "/">>)),
      ATag(P(<<"/", "q">>)),
      ATag(P(<<"/", "x", ".pdf">>)),
      EmbedTag(P(<<"/", "x", ".pdf">>)),
      ATag(Url("https", "b.com", <<"/", "q">>, <<>>, <<>>)),
      ATag(Url("http", "", <<"foo">>, <<>>, <<>>)) }

\* extract_links(soup, base_url): every <a href> resolved against the page URL
extract_links(tags, base_url) ==
    { urljoin(base_url, t.ref) : t \in { t \in tags : t.tag = "a" /\ t.ref # EmptyUrl } }

\* extract_pdf_links(soup, base_url): <a href> and <iframe|embed|object src> ending in .pdf
extract_pdf_links(tags, base_url) ==
    { urljoin(base_url, t.ref) : t \in { t \in tags : EndsWithPdf(t.ref) } }

\* the orders in which a Python set may be iterated
Orders(S) ==
    { s \in [1..Cardinality(S) -> S] : \A i, j \in 1..Cardinality(S) : s[i] = s[j] => i = j }

PdfTypes == {"application/pdf"}
HtmlTypes == {"text/html; charset=utf-8"}
OtherTypes == {"image/png"}
\* the HTTP statuses the server answers with
Statuses == {200, 404}
\* the status from which a page is an HTTP error
HttpErrorFloor == 400

\* what one loop iteration meets for a URL:
\*   kind "raise": page.goto raises; "none": it returns None; "resp": a response
\*   of content-type ctype and status, whose rendered HTML carries tags;
\*   pdf_order, link_order: the orders in which the two link sets are iterated;
\*   md: whether writing the page's Markdown file succeeds ("ok") or raises
NoPage(kind) ==
    [kind |-> kind, ctype |-> "", status |-> 0, tags |-> {},
     pdf_order |-> <<>>, link_order |-> <<>>, md |-> "ok"]

Answers(ctypes) ==
    { [NoPage("resp") EXCEPT !.ctype = ct, !.status = st] : ct \in ctypes, st \in Statuses }

\* the tag sets a page may carry within the largest budget a site is given
TagSets == { T \in SUBSET TagUniverse : Cardinality(T) <= MaxSiteTags + 2 }

\* the same over the tags of another site (those of TagUniverse are computed once)
TagSetsOf(words) ==
    IF words \subseteq TagUniverse THEN { T \in TagSets : T \subseteq words }
    ELSE { T \in SUBSET words : Cardinality(T) <= MaxSiteTags + 2 }

HtmlPages(url, words, budget, mds) ==
    UNION { { [kind |-> "resp", ctype |-> ct, status |-> st, tags |-> T,
               pdf_order |-> po, link_order |-> lo, md |-> md] :
                ct \in HtmlTypes, st \in { c \in Statuses : c < HttpErrorFloor },
                po \in Orders(extract_pdf_links(T, url)),
                lo \in Orders(extract_links(T, url)),
                md \in mds } :
            T \in { T \in TagSetsOf(words) : Cardinality(T) <= budget } }

\* the outcomes of session.get(pdf_url) plus the file write in download_pdf
DlOutcomes == {"ok", "fail"}

(***************************************************************************)
(* download_pdf                                                            *)
(***************************************************************************)
\* os.path.basename(path): the text after the last "/"
RECURSIVE Basename(_)
Basename(p) ==
    IF p = <<>> \/ p[Len(p)] = "/" THEN <<>>
    ELSE Basename(SubSeq(p, 1, Len(p) - 1)) \o <<p[Len(p)]>>

\* unquote, then re.sub(r'[^\w\-.]', '_', name): the tokens modelled are either
\* made of word characters, "-" and ".", or a percent-escaped space
SafeToken(t) == IF t = "%20" THEN "_" ELSE t
SafeName(name) == [i \in 1..Len(name) |-> SafeToken(name[i])]

PdfFilename(url) ==
    LET raw == Basename(ParsedPath(url))
        named == IF raw # <<>> /\ raw[Len(raw)] = ".pdf" THEN raw ELSE raw \o <<".pdf">>
    IN  SafeName(named)

JoinPath(folder, name) == folder \o <<"/">> \o name

\* a variant of the loop that never looks at the folder
FirstFreeUnchecked(filepath, base, ext, counter, fs) == filepath

\* the loop "while os.path.exists(filepath)": the first of name, name_1, name_2, ...
\* that is not taken (os.path.splitext keeps a leading dot in the base)
RECURSIVE FirstFree(_, _, _, _, _)
FirstFree(filepath, base, ext, counter, fs) ==
    IF filepath \notin fs THEN filepath
    ELSE FirstFree(base \o <<"_" \o ToString(counter)>> \o ext, base, ext, counter + 1, fs)

SavePath(folder, name, fs) ==
    LET filepath == JoinPath(folder, name)
        hasExt == Len(name) > 1
        base == IF hasExt THEN SubSeq(filepath, 1, Len(filepath) - 1) ELSE filepath
        ext == IF hasExt THEN <<filepath[Len(filepath)]>> ELSE <<>>
    IN  FirstFree(filepath, base, ext, 1, fs)

\* a wait of time.sleep(seconds), a page.goto(url), a session.get(url)
Sleep(seconds) == [op |-> "sleep", arg |-> seconds]
PageGoto(url) == [op |-> "goto", arg |-> url]
SessionGet(url) == [op |-> "get", arg |-> url]

\* download_pdf(url, output_folder, session, delay): (path, size) or (None, message);
\* net: the wait and the request it makes (lines 178-179)
download_pdf(url, folder, fs, outcome, delay) ==
    LET net == <<Sleep(delay), SessionGet(url)>>
    IN  IF outcome = "ok"
        THEN LET path == SavePath(folder, PdfFilename(url), fs)
             IN  [path |-> path, size_kb |-> "2.0", error |-> "", files |-> fs \cup {path},
                  net |-> net]
        ELSE [path |-> None, size_kb |-> "", error |-> "download failed", files |-> fs,
              net |-> net]


(***************************************************************************)
(* url_to_filename                                                         *)
(***************************************************************************)
ExtTokens == {".pdf", ".md", ".html"} \cup SkipExts

RECURSIVE StripEnds(_, _)
StripEnds(s, drop) ==
    IF s # <<>> /\ s[1] \in drop THEN StripEnds(Tail(s), drop)
    ELSE IF s # <<>> /\ s[Len(s)] \in drop THEN StripEnds(SubSeq(s, 1, Len(s) - 1), drop)
    ELSE s

\* url_to_filename(url, ".md")
url_to_filename(url) ==
    LET stripped == StripEnds(ParsedPath(url), {"/"})
        path == IF stripped = <<>> THEN <<"index">> ELSE stripped
        under == [i \in 1..Len(path) |-> IF path[i] = "/" THEN "_" ELSE SafeToken(path[i])]
        safe == StripEnds(under, {"_", "."})
        name == IF safe = <<>> THEN <<"md5">> ELSE safe
    IN  IF name[Len(name)] = ".md" THEN name
        ELSE IF Len(name) > 1 /\ name[Len(name)] \in ExtTokens
             THEN SubSeq(name, 1, Len(name) - 1) \o <<".md">>
             ELSE name \o <<".md">>

(***************************************************************************)
(* The crawl: state.                                                       *)
(***************************************************************************)
VARIABLES
    cfg,             \* the arguments of crawl()
    twin,            \* "off": one run; "seen": one run whose answers are kept in site;
                     \* "first", "second": two runs over the same site
    first,           \* the history of the first of two runs
    pc,              \* "start", "loop", "fetch", "after_loop", "done"
    cur,             \* the task dequeued last: [url, depth]
    queue,           \* the frontier (a deque of [url, depth])
    visited,         \* set of normalized URLs
    all_pages,
    all_pdfs,
    downloaded_pdfs, \* list of saved PDF paths
    saved_md_files,  \* list of saved Markdown paths
    errors,          \* list of <<url, message>>
    crawl_log,       \* list of log entries
    pages_crawled,
    results,         \* what crawl() returns: None or Some(summary)
    \* the world around the program
    site,            \* what each URL fetched so far answered
    dl_site,         \* how each PDF URL requested so far answered the download
    vocab,           \* the tags the pages of the site are made of
    tags_left,       \* tags the rest of the site may still carry
    browser,         \* "off", "open", "closed"
    dirs,            \* directories created
    files,           \* paths of the files written (PDF and Markdown)
    reports,         \* report files written: [path, rows]
    \* history
    discarded,       \* tasks dequeued and dropped, with the reason, in order
    fetched,         \* tasks whose URL was passed to page.goto, in order
    pdf_gets,        \* URLs passed to download_pdf, in order
    md_calls,        \* URLs passed to html_to_markdown, in order
    net              \* the waits and the network requests made, in order

\* the PDF pipeline of pipeline.py (PDFPipeline.process_single_pdf)
VARIABLES
    step,              \* where process_single_pdf stands: "idle" (not called), "start",
                       \* "extract", "dedup", "describe", "clean", "inject", "done"
    pdf_args,          \* its arguments: [keep_duplicates, api_key]
    pdf_exists,        \* pdf_path.exists()
    images_folder,     \* images_dir/<pdf stem>: "absent", "empty" (no *.png), "pngs"
    duplicate_mapping, \* whether <images_folder>/duplicate_mapping.txt exists
    has_duplicates,    \* the local variable of that name
    returned,          \* "" while it runs, then "True", "False" or "raised"
    commands,          \* the commands passed to subprocess.run, in order, with outcome
    extracted          \* whether the extraction of this call wrote images: "", "none", "some"

prog == <<pc, cur, queue, visited, all_pages, all_pdfs, downloaded_pdfs, saved_md_files,
          errors, crawl_log, pages_crawled, results>>
world == <<site, dl_site, vocab, tags_left, browser, dirs, files, reports>>
hist == <<discarded, fetched, pdf_gets, md_calls, net>>
pipeline == <<step, pdf_args, pdf_exists, images_folder, duplicate_mapping, has_duplicates,
              returned, commands, extracted>>
vars == <<cfg, twin, first, prog, world, hist, pipeline>>

Task(url, depth) == [url |-> url, depth |-> depth]
NoTask == Task(EmptyUrl, 0)

OutputFolder == <<"crawled">>
\* lines 251-257: the two folders exist only with an output folder and outside dry-run
pdf_folder == IF cfg.output_folder # None /\ ~cfg.dry_run
              THEN JoinPath(cfg.output_folder, <<"pdfs">>) ELSE None
md_folder == IF cfg.output_folder # None /\ ~cfg.dry_run
             THEN JoinPath(cfg.output_folder, <<"markdown">>) ELSE None

base_domain == cfg.start_url.netloc

Entry(url, type, status, depth, count, found_on, saved_as, size_kb, error) ==
    [url |-> url, type |-> type, status |-> status, depth |-> depth,
     pdf_links_count |-> count, found_on |-> found_on, saved_as |-> saved_as,
     size_kb |-> size_kb, error |-> error]

\* a variant of the error entry whose status is "failed"
PageErrorWithStatusFailed(url, depth, msg) ==
    Entry(url, "page", "failed", depth, 0, EmptyUrl, None, "", msg)

\* lines 360-364 and 445-449: the log entry of a page that failed
PageError(url, depth, msg) == Entry(url, "page", "error", depth, 0, EmptyUrl, None, "", msg)


(***************************************************************************)
(* The crawl: the decisions of the loop.                                   *)
(***************************************************************************)
\* a variant of line 295 that stops one page short of the bound
BoundReachedOnePageEarly == Truthy(cfg.max_pages) /\ pages_crawled + 1 >= cfg.max_pages[1]

\* line 295: "if max_pages and pages_crawled >= max_pages"
BoundReached == Truthy(cfg.max_pages) /\ pages_crawled >= cfg.max_pages[1]

\* a variant of line 302 that asks the set of crawled pages instead of visited
AlreadyVisitedIfCrawled(url) == url \in all_pages

\* line 302
AlreadyVisited(url) == url \in visited

\* a variant of line 304 that tests max_depth for truth, as line 295 tests max_pages
TooDeepIfTruthy(depth) == Truthy(cfg.max_depth) /\ depth > cfg.max_depth[1]

\* line 304
TooDeep(depth) == cfg.max_depth # None /\ depth > cfg.max_depth[1]

\* lines 436-440: whether a normalized link is put on the frontier
Enqueueable(normalized, seen) ==
    /\ normalized \notin seen
    /\ is_same_domain(normalized, base_domain)
    /\ is_valid_url(normalized)

\* lines 334 and 394: whether a PDF met is downloaded
Downloading == ~cfg.dry_run /\ pdf_folder # None

\* a variant of lines 347 and 407 without the dry-run case
PdfStatusSavedOrError(saved_path) == IF saved_path # None THEN "downloaded" ELSE "error"

\* lines 347 and 407: the status of a PDF entry
PdfStatus(saved_path) ==
    IF saved_path # None THEN "downloaded" ELSE IF cfg.dry_run THEN "found" ELSE "error"

\* a variant of line 416 without the test of pdfs_only
ConvertingInEveryMode == ~cfg.dry_run /\ md_folder # None

\* line 416: whether the page is converted and written
Converting == ~cfg.dry_run /\ ~cfg.pdfs_only /\ md_folder # None

\* a variant of lines 347-352 and 405-412 that puts the entry of a PDF at the head
\* of the crawl log
RecordPdfLoggedFirst(st, url, depth, found_on, outcome, delay) ==
    LET d == IF Downloading THEN download_pdf(url, pdf_folder, st.files, outcome, delay)
             ELSE [path |-> None, size_kb |-> "", error |-> "", files |-> st.files,
                   net |-> <<>>]
    IN  [all_pdfs |-> st.all_pdfs \cup {url},
         downloaded_pdfs |-> IF d.path # None THEN Append(st.downloaded_pdfs, d.path)
                             ELSE st.downloaded_pdfs,
         errors |-> IF Downloading /\ d.path = None THEN Append(st.errors, <<url, d.error>>)
                    ELSE st.errors,
         crawl_log |-> <<Entry(url, "pdf", PdfStatus(d.path), depth, 0, found_on,
                               d.path, d.size_kb, d.error)>> \o st.crawl_log,
         files |-> d.files,
         pdf_gets |-> IF Downloading THEN Append(st.pdf_gets, url) ELSE st.pdf_gets,
         net |-> st.net \o d.net]

\* lines 329-352 and 389-412: download (when downloading) and log one PDF.
\* st carries all_pdfs, downloaded_pdfs, errors, crawl_log, files, pdf_gets, net;
\* delay is the delay passed to download_pdf (0 at line 335, delay at line 395)
RecordPdf(st, url, depth, found_on, outcome, delay) ==
    LET d == IF Downloading THEN download_pdf(url, pdf_folder, st.files, outcome, delay)
             ELSE [path |-> None, size_kb |-> "", error |-> "", files |-> st.files,
                   net |-> <<>>]
    IN  [all_pdfs |-> st.all_pdfs \cup {url},
         downloaded_pdfs |-> IF d.path # None THEN Append(st.downloaded_pdfs, d.path)
                             ELSE st.downloaded_pdfs,
         errors |-> IF Downloading /\ d.path = None THEN Append(st.errors, <<url, d.error>>)
                    ELSE st.errors,
         crawl_log |-> Append(st.crawl_log,
                              Entry(url, "pdf", PdfStatus(d.path), depth, 0, found_on,
                                    d.path, d.size_kb, d.error)),
         files |-> d.files,
         pdf_gets |-> IF Downloading THEN Append(st.pdf_gets, url) ELSE st.pdf_gets,
         net |-> st.net \o d.net]

\* line 387: a PDF link is new when its normalized URL is not in all_pdfs
NewPdf(normalized_pdf, known) == normalized_pdf \notin known

\* lines 385-412: the loop over the PDF links of a page, in iteration order
RECURSIVE PdfLinks(_, _, _, _, _)
PdfLinks(st, links, url, depth, dl) ==
    IF links = <<>> THEN st
    ELSE LET normalized_pdf == normalize_url(Head(links))
         IN  PdfLinks(IF NewPdf(normalized_pdf, st.all_pdfs)
                      THEN RecordPdf(st, normalized_pdf, depth, url, dl[normalized_pdf],
                                     cfg.delay)
                      ELSE st,
                      Tail(links), url, depth, dl)

\* a variant of line 441 that puts a new task at the head of the deque
RECURSIVE DiscoverAtHead(_, _, _, _)
DiscoverAtHead(q, links, depth, seen) ==
    IF links = <<>> THEN q
    ELSE LET normalized == normalize_url(Head(links))
         IN  DiscoverAtHead(IF Enqueueable(normalized, seen)
                            THEN <<Task(normalized, depth + 1)>> \o q ELSE q,
                            Tail(links), depth, seen)

\* a variant of line 441 that gives a new task the depth of the page it is found on
RECURSIVE DiscoverAtSameDepth(_, _, _, _)
DiscoverAtSameDepth(q, links, depth, seen) ==
    IF links = <<>> THEN q
    ELSE LET normalized == normalize_url(Head(links))
         IN  DiscoverAtSameDepth(IF Enqueueable(normalized, seen)
                                 THEN Append(q, Task(normalized, depth)) ELSE q,
                                 Tail(links), depth, seen)

\* lines 433-441: the loop over the links of a page, in iteration order
RECURSIVE Discover(_, _, _, _)
Discover(q, links, depth, seen) ==
    IF links = <<>> THEN q
    ELSE LET normalized == normalize_url(Head(links))
         IN  Discover(IF Enqueueable(normalized, seen)
                      THEN Append(q, Task(normalized, depth + 1)) ELSE q,
                      Tail(links), depth, seen)

\* lines 310-312: the wait and the page fetch of an iteration
FetchCalls == <<Sleep(cfg.delay), PageGoto(cur.url)>>

\* the state the PDF handling of an iteration starts from
PdfState == [all_pdfs |-> all_pdfs, downloaded_pdfs |-> downloaded_pdfs, errors |-> errors,
             crawl_log |-> crawl_log, files |-> files, pdf_gets |-> pdf_gets,
             net |-> net \o FetchCalls]

\* the PDF URLs a page newly meets, i.e. those a download may be asked for
NewPdfs(r, url) ==
    { n \in { normalize_url(l) : l \in extract_pdf_links(r.tags, url) } : NewPdf(n, all_pdfs) }


(***************************************************************************)
(* The crawl: actions.                                                     *)
(***************************************************************************)
\* line 230: delay=1.0
DefaultDelay == 1

StartUrls == { Url("https", Host, <<"/">>, <<>>, <<>>) }

AllConfigs ==
    [start_url : StartUrls,
     output_folder : {None, OutputFolder},
     max_depth : {None, Some(0), Some(1)},
     max_pages : {None, Some(0), Some(1), Some(2)},
     dry_run : BOOLEAN,
     pdfs_only : BOOLEAN,
     report_path : {None},
     delay : {DefaultDelay},
     no_report : {FALSE}]     \* main's --no-report flag; crawl() does not receive it

NoHistory == [fetched |-> <<>>, pdf_gets |-> <<>>]


\* process_single_pdf is not called
NoPipeline ==
    /\ step = "idle"
    /\ pdf_args = [keep_duplicates |-> FALSE, api_key |-> None]
    /\ pdf_exists = FALSE
    /\ images_folder = "absent"
    /\ duplicate_mapping = FALSE
    /\ has_duplicates = FALSE
    /\ returned = ""
    /\ commands = <<>>
    /\ extracted = ""

\* lines 224-275: the state at the entry of crawl()
InitCrawl(configs, runs, words, budget) ==
    /\ cfg \in configs
    /\ twin = runs
    /\ first = NoHistory
    /\ pc = "start"
    /\ cur = NoTask
    /\ queue = <<>>
    /\ visited = {}
    /\ all_pages = {}
    /\ all_pdfs = {}
    /\ downloaded_pdfs = <<>>
    /\ saved_md_files = <<>>
    /\ errors = <<>>
    /\ crawl_log = <<>>
    /\ pages_crawled = 0
    /\ results = None
    /\ site = [u \in {} |-> NoPage("none")]
    /\ dl_site = [u \in {} |-> "ok"]
    /\ vocab = words
    /\ tags_left = budget
    /\ browser = "off"
    /\ dirs = {}
    /\ files = {}
    /\ reports = <<>>
    /\ discarded = <<>>
    /\ fetched = <<>>
    /\ pdf_gets = <<>>
    /\ md_calls = <<>>
    /\ net = <<>>

InitWith(configs, runs, words, budget) ==
    InitCrawl(configs, runs, words, budget) /\ NoPipeline

\* every mode without limits, and every limit in a full crawl with an output folder
Configs ==
    { c \in AllConfigs : \/ c.max_depth = None /\ c.max_pages = None
                         \/ ~c.dry_run /\ ~c.pdfs_only /\ c.output_folder # None }

Init == InitWith(Configs, "off", TagUniverse, MaxSiteTags)

\* a variant of line 246 that finds a host in every start URL
NoHostNeverFound == FALSE

\* line 246: "if not base_domain"
NoHost == base_domain = ""

\* lines 242-292: crawl() up to the loop
Start ==
    /\ pc = "start"
    /\ IF NoHost
       THEN /\ pc' = "done"
            /\ UNCHANGED <<queue, browser, dirs>>
       ELSE /\ pc' = "loop"
            /\ dirs' = IF cfg.output_folder # None /\ ~cfg.dry_run
                       THEN dirs \cup {pdf_folder, md_folder} ELSE dirs
            /\ queue' = Append(queue, Task(normalize_url(cfg.start_url), 0))
            /\ browser' = "open"
    /\ UNCHANGED <<pipeline, cfg, twin, first, cur, visited, all_pages, all_pdfs, downloaded_pdfs, saved_md_files,
                   errors, crawl_log, pages_crawled, results, site, dl_site, vocab,
                   tags_left, files, reports, hist>>

\* lines 294-298: the loop ends on an empty frontier or at the page bound
LoopExit ==
    /\ pc = "loop"
    /\ queue = <<>> \/ BoundReached
    /\ pc' = "after_loop"
    /\ UNCHANGED <<pipeline, cfg, twin, first, cur, queue, visited, all_pages, all_pdfs, downloaded_pdfs,
                   saved_md_files, errors, crawl_log, pages_crawled, results, world, hist>>

\* lines 300-307: take the head of the frontier; drop it, or mark it visited
Dequeue ==
    /\ pc = "loop"
    /\ queue # <<>>
    /\ ~BoundReached
    /\ LET task == Head(queue)
       IN  /\ queue' = Tail(queue)
           /\ cur' = task
           /\ IF AlreadyVisited(task.url)
              THEN /\ discarded' = Append(discarded, [task |-> task, why |-> "visited"])
                   /\ UNCHANGED <<pc, visited>>
              ELSE IF TooDeep(task.depth)
              THEN /\ discarded' = Append(discarded, [task |-> task, why |-> "depth"])
                   /\ UNCHANGED <<pc, visited>>
              ELSE /\ visited' = visited \cup {task.url}
                   /\ pc' = "fetch"
                   /\ UNCHANGED discarded
    /\ UNCHANGED <<pipeline, cfg, twin, first, all_pages, all_pdfs, downloaded_pdfs, saved_md_files,
                   errors, crawl_log, pages_crawled, results, world, fetched, pdf_gets,
                   md_calls, net>>

\* what the URL in hand may answer: any of fresh; over two runs of one site, what
\* it answered before
Candidates(fresh) == IF cur.url \in DOMAIN site THEN {site[cur.url]} \cap fresh ELSE fresh
Known(url) == twin = "off" \/ url \in DOMAIN site

\* a variant in which an exception is not caught and leaves crawl() at once
AfterIterationAbortingOnRaise(met) == IF met = "raise" THEN "done" ELSE "loop"

\* a variant in which an exception is caught around the loop, not inside it
AfterIterationLeavingOnRaise(met) == IF met = "raise" THEN "after_loop" ELSE "loop"

\* lines 321, 353, 356, 367 (continue) and 443-451 (except Exception): whatever the
\* iteration met, the loop goes on with its next round
AfterIteration(met) == "loop"

\* line 312: page.goto(url) is called and the site's answer r is met
Goto(r) ==
    /\ pc = "fetch"
    /\ fetched' = Append(fetched, cur)
    /\ site' = IF Known(cur.url) THEN site ELSE (cur.url :> r) @@ site
    /\ tags_left' = IF cur.url \in DOMAIN site THEN tags_left
                    ELSE tags_left - Cardinality(r.tags)
    /\ UNCHANGED <<vocab, discarded>>

\* lines 312, 443-451: the fetch raises
FetchRaises ==
    /\ \E r \in Candidates({NoPage("raise")}) : Goto(r)
    /\ pc' = AfterIteration("raise")
    /\ errors' = Append(errors, <<cur.url, "Timeout">>)
    /\ crawl_log' = Append(crawl_log, PageError(cur.url, cur.depth, "Timeout"))
    /\ net' = net \o FetchCalls
    /\ UNCHANGED <<pipeline, cfg, twin, first, cur, queue, visited, all_pages, all_pdfs, downloaded_pdfs,
                   saved_md_files, pages_crawled, results, dl_site, browser, dirs, files,
                   reports, pdf_gets, md_calls>>

\* lines 317-321: no response
FetchNone ==
    /\ \E r \in Candidates({NoPage("none")}) : Goto(r)
    /\ pc' = AfterIteration("none")
    /\ errors' = Append(errors, <<cur.url, "No response">>)
    /\ net' = net \o FetchCalls
    /\ UNCHANGED <<pipeline, cfg, twin, first, cur, queue, visited, all_pages, all_pdfs, downloaded_pdfs,
                   saved_md_files, crawl_log, pages_crawled, results, dl_site, browser,
                   dirs, files, reports, pdf_gets, md_calls>>

\* the download outcomes the PDF URLs in need may meet: as before for a URL asked
\* before; no download is asked when not Downloading
Downloads(need) ==
    { dl \in [need -> DlOutcomes] :
        \A u \in need : /\ u \in DOMAIN dl_site => dl[u] = dl_site[u]
                        /\ ~Downloading => dl[u] = "ok" }

Asked(dl) == IF Downloading /\ twin # "off" THEN dl @@ dl_site ELSE dl_site

\* lines 327-353: the response is a PDF
HandlePdfResponse ==
    /\ \E r \in Candidates(Answers(PdfTypes)) :
         /\ Goto(r)
         /\ \E dl \in Downloads({cur.url}) :
              LET st == RecordPdf(PdfState, cur.url, cur.depth, DirectMark, dl[cur.url], 0)
              IN  /\ all_pdfs' = st.all_pdfs
                  /\ downloaded_pdfs' = st.downloaded_pdfs
                  /\ errors' = st.errors
                  /\ crawl_log' = st.crawl_log
                  /\ files' = st.files
                  /\ pdf_gets' = st.pdf_gets
                  /\ net' = st.net
                  /\ dl_site' = Asked(dl)
    /\ pc' = AfterIteration("pdf")
    /\ UNCHANGED <<pipeline, cfg, twin, first, cur, queue, visited, all_pages, saved_md_files,
                   pages_crawled, results, browser, dirs, reports, md_calls>>

\* lines 355-356: neither a PDF nor HTML
SkipOther ==
    /\ \E r \in Candidates(Answers(OtherTypes)) : Goto(r)
    /\ pc' = AfterIteration("other")
    /\ net' = net \o FetchCalls
    /\ UNCHANGED <<pipeline, cfg, twin, first, cur, queue, visited, all_pages, all_pdfs, downloaded_pdfs,
                   saved_md_files, errors, crawl_log, pages_crawled, results, dl_site,
                   browser, dirs, files, reports, pdf_gets, md_calls>>

HttpMessage(status) == "HTTP " \o ToString(status)

\* lines 358-367: an HTML response with an error status
HttpError ==
    /\ \E r \in Candidates({ a \in Answers(HtmlTypes) : a.status >= HttpErrorFloor }) :
         /\ Goto(r)
         /\ errors' = Append(errors, <<cur.url, HttpMessage(r.status)>>)
         /\ crawl_log' = Append(crawl_log,
                                PageError(cur.url, cur.depth, HttpMessage(r.status)))
    /\ pc' = AfterIteration("http error")
    /\ net' = net \o FetchCalls
    /\ UNCHANGED <<pipeline, cfg, twin, first, cur, queue, visited, all_pages, all_pdfs, downloaded_pdfs,
                   saved_md_files, pages_crawled, results, dl_site, browser, dirs, files,
                   reports, pdf_gets, md_calls>>

\* lines 369-441 and 443-451: an HTML page
HandleHtml ==
    /\ \E r \in Candidates(HtmlPages(cur.url, vocab, tags_left,
                                     IF Converting \/ cur.url \in DOMAIN site
                                     THEN {"ok", "raise"} ELSE {"ok"})) :
         /\ Goto(r)
         /\ \E dl \in Downloads(NewPdfs(r, cur.url)) :
              LET st == PdfLinks(PdfState, r.pdf_order, cur.url, cur.depth, dl)
                  md_path == JoinPath(md_folder, url_to_filename(cur.url))
                  written == Converting /\ r.md = "ok"
                  raised == Converting /\ r.md = "raise"
              IN  /\ all_pdfs' = st.all_pdfs
                  /\ downloaded_pdfs' = st.downloaded_pdfs
                  /\ pdf_gets' = st.pdf_gets
                  /\ net' = st.net
                  /\ dl_site' = Asked(dl)
                  /\ md_calls' = IF Converting THEN Append(md_calls, cur.url) ELSE md_calls
                  /\ files' = IF written THEN st.files \cup {md_path} ELSE st.files
                  /\ saved_md_files' = IF written THEN Append(saved_md_files, md_path)
                                       ELSE saved_md_files
                  /\ errors' = IF raised THEN Append(st.errors, <<cur.url, "write failed">>)
                               ELSE st.errors
                  /\ crawl_log' =
                       IF raised
                       THEN Append(st.crawl_log, PageError(cur.url, cur.depth, "write failed"))
                       ELSE Append(st.crawl_log,
                                   Entry(cur.url, "page", "crawled", cur.depth,
                                         Len(r.pdf_order), EmptyUrl,
                                         IF written THEN md_path ELSE None, "", ""))
                  /\ queue' = IF raised THEN queue
                              ELSE Discover(queue, r.link_order, cur.depth, visited)
                  /\ pc' = AfterIteration(IF raised THEN "raise" ELSE "html")
    /\ pages_crawled' = pages_crawled + 1
    /\ all_pages' = all_pages \cup {cur.url}
    /\ UNCHANGED <<pipeline, cfg, twin, first, cur, visited, results, browser, dirs, reports>>

ReportFile == <<"crawl_report.csv">>

\* lines 453-478: close the browser, build the summary, write the report
Finish ==
    /\ pc = "after_loop"
    /\ pc' = "done"
    /\ browser' = "closed"
    /\ results' = Some([pages_found |-> Cardinality(all_pages),
                        pages_crawled |-> pages_crawled,
                        pdfs_found |-> Cardinality(all_pdfs),
                        pdfs_downloaded |-> Len(downloaded_pdfs),
                        errors |-> errors])
    /\ reports' =
         IF cfg.report_path # None
         THEN Append(reports, [path |-> cfg.report_path, rows |-> crawl_log])
         ELSE IF cfg.output_folder # None
         THEN Append(reports, [path |-> JoinPath(cfg.output_folder, ReportFile),
                               rows |-> crawl_log])
         ELSE IF cfg.dry_run /\ crawl_log # <<>>
         THEN Append(reports, [path |-> ReportFile, rows |-> crawl_log])
         ELSE reports
    /\ dirs' = IF cfg.report_path = None /\ cfg.output_folder # None
               THEN dirs \cup {cfg.output_folder} ELSE dirs
    /\ UNCHANGED <<pipeline, cfg, twin, first, cur, queue, visited, all_pages, all_pdfs, downloaded_pdfs,
                   saved_md_files, errors, crawl_log, pages_crawled, site, dl_site,
                   vocab, tags_left, files, hist>>

Next ==
    \/ Start
    \/ LoopExit
    \/ Dequeue
    \/ FetchRaises
    \/ FetchNone
    \/ HandlePdfResponse
    \/ SkipOther
    \/ HttpError
    \/ HandleHtml
    \/ Finish

Spec == Init /\ [][Next]_vars

(***************************************************************************)
(* A site of plain pages, one tag larger: frontiers that hold two depths.  *)
(***************************************************************************)
PageTags == { ATag(P(<<"/", "p">>)), ATag(P(<<"/", "p", "/">>)), ATag(P(<<"/", "q">>)) }

BfsConfigs ==
    { c \in AllConfigs : /\ c.max_pages = None /\ c.max_depth \in {None, Some(1)}
                         /\ c.output_folder = None /\ ~c.dry_run /\ ~c.pdfs_only }

InitBfs == InitWith(BfsConfigs, "off", PageTags, MaxSiteTags + 2)

SpecBfs == InitBfs /\ [][Next]_vars

(***************************************************************************)
(* Two runs over one site: a full crawl, then the same crawl in PDFs-only   *)
(* mode into a fresh output folder.  Every URL answers the second run as it *)
(* answered the first.                                                      *)
(***************************************************************************)
TwinTags == { ATag(P(<<"/", "p">>)), ATag(P(<<"/", "x", ".pdf">>)),
              EmbedTag(P(<<"/", "x", ".pdf">>)) }

TwinConfigs ==
    { c \in AllConfigs : /\ c.max_pages \in {None, Some(1)} /\ c.max_depth = None
                         /\ c.output_folder # None /\ ~c.dry_run /\ ~c.pdfs_only }

InitTwin == InitWith(TwinConfigs, "first", TwinTags, MaxSiteTags)

Rerun ==
    /\ pc = "done"
    /\ twin = "first"
    /\ twin' = "second"
    /\ first' = [fetched |-> fetched, pdf_gets |-> pdf_gets]
    /\ cfg' = [cfg EXCEPT !.pdfs_only = TRUE]
    /\ pc' = "start"
    /\ cur' = NoTask
    /\ queue' = <<>>
    /\ visited' = {}
    /\ all_pages' = {}
    /\ all_pdfs' = {}
    /\ downloaded_pdfs' = <<>>
    /\ saved_md_files' = <<>>
    /\ errors' = <<>>
    /\ crawl_log' = <<>>
    /\ pages_crawled' = 0
    /\ results' = None
    /\ browser' = "off"
    /\ dirs' = {}
    /\ files' = {}
    /\ reports' = <<>>
    /\ discarded' = <<>>
    /\ fetched' = <<>>
    /\ pdf_gets' = <<>>
    /\ md_calls' = <<>>
    /\ net' = <<>>
    /\ UNCHANGED <<site, dl_site, vocab, tags_left, pipeline>>

NextTwin == Next \/ Rerun

SpecTwin == InitTwin /\ [][NextTwin]_vars

(***************************************************************************)
(* The crawl as a sequential program: it always takes its next step.  A    *)
(* full crawl into an output folder, with and without a page bound.        *)
(***************************************************************************)
LiveTags == { ATag(P(<<"/", "p">>)), ATag(P(<<"/", "q">>)), ATag(P(<<"/", "x", ".pdf">>)) }

LiveConfigs ==
    { c \in AllConfigs : /\ c.max_depth = None
                          /\ c.output_folder # None /\ ~c.dry_run /\ ~c.pdfs_only }

InitLive == InitWith(LiveConfigs, "off", LiveTags, MaxSiteTags)

SpecLive == InitLive /\ [][Next]_vars /\ WF_vars(Next)

(***************************************************************************)
(* One run in which the answer each fetched URL gave is kept in site.      *)
(***************************************************************************)
SeenConfigs ==
    { c \in AllConfigs : /\ c.max_depth = None /\ c.max_pages = None
                          /\ c.output_folder # None /\ ~c.pdfs_only }

InitSeen == InitWith(SeenConfigs, "seen", LiveTags, MaxSiteTags)

SpecSeen == InitSeen /\ [][Next]_vars

(***************************************************************************)
(* A site of PDFs whose file names collide: two of base name a.pdf, two    *)
(* whose URL path has no base name at all.                                 *)
(***************************************************************************)
DlTags ==
    { ATag(P(<<"/", "a", ".pdf">>)),
      ATag(P(<<"/", "d", "/", "a", ".pdf">>)),
      ATag(Url("", "", <<"/">>, <<"d=1">>, <<>>)),
      ATag(Url("", "", <<"/">>, <<"d=2">>, <<>>)) }

DlConfigs ==
    { c \in AllConfigs : /\ c.max_depth = None /\ c.max_pages = None
                          /\ c.output_folder # None /\ ~c.dry_run /\ ~c.pdfs_only }

InitDl == InitWith(DlConfigs, "off", DlTags, MaxSiteTags)

SpecDl == InitDl /\ [][Next]_vars

(***************************************************************************)
(* main(): the command line, the call of crawl() and the exit status.      *)
(***************************************************************************)
\* url.startswith(("http://", "https://"))
StartsWithHttp(u) ==
    LET str == Unparse(u)
    IN  Len(str) >= 2 /\ str[1] \in {"http:", "https:"} /\ str[2] = "//"

\* lines 520-522: "https://" is put before a URL argument without a scheme
WithScheme(u) ==
    IF StartsWithHttp(u) THEN u
    ELSE Reparse([u EXCEPT !.scheme = "https", !.path = <<"/", "/">> \o u.path])

\* lines 524-526: the report path passed on to crawl()
MainReportPath(no_report, report) == IF ~no_report THEN report ELSE None

\* lines 528-538: the arguments main() calls crawl() with
CrawlCall(args) ==
    [start_url |-> WithScheme(args.url),
     output_folder |-> args.output_folder,
     max_depth |-> args.max_depth,
     max_pages |-> args.max_pages,
     dry_run |-> args.dry_run,
     pdfs_only |-> args.pdfs_only,
     report_path |-> MainReportPath(args.no_report, args.report),
     delay |-> args.delay,
     no_report |-> args.no_report]

\* lines 540-544: sys.exit(1) when crawl() returned a result with no page crawled;
\* otherwise main() returns and the process ends with status 0
main_exit_status(res) == IF res # None /\ res[1].pages_crawled = 0 THEN 1 ELSE 0

\* the URL arguments: a full URL, a bare host, the empty string
MainUrls == { Url("https", Host, <<"/">>, <<>>, <<>>), P(<<Host>>), EmptyUrl }

MainArgs ==
    [url : MainUrls,
     output_folder : {None, OutputFolder},
     max_depth : {None},
     max_pages : {None},
     dry_run : BOOLEAN,
     pdfs_only : {FALSE},
     no_report : BOOLEAN,
     report : {None, Some(<<"r", ".csv">>)},
     delay : {DefaultDelay}]

MainConfigs == { CrawlCall(args) : args \in MainArgs }

MainTags == { ATag(P(<<"/", "p">>)), ATag(P(<<"/", "x", ".pdf">>)) }

InitMain == InitWith(MainConfigs, "off", MainTags, MaxSiteTags)

SpecMain == InitMain /\ [][Next]_vars

(***************************************************************************)
(* A site whose pages carry nothing but a link to report.pdf, in every     *)
(* mode; the answer each fetched URL gave is kept in site.                 *)
(***************************************************************************)
ReportLink == ATag(P(<<"report", ".pdf">>))

ReportTags == { ReportLink, ATag(P(<<"/", "p">>)) }

ReportConfigs == { c \in AllConfigs : c.max_depth = None /\ c.max_pages = None }

InitReport == InitWith(ReportConfigs, "seen", ReportTags, MaxSiteTags)

SpecReport == InitReport /\ [][Next]_vars

(***************************************************************************)
(* normalize_url on start URLs and links whose paths carry ";" and         *)
(* trailing slashes: a full crawl into an output folder without limits.    *)
(***************************************************************************)
NormPaths ==
    { <<"/">>, <<"/", "p", "/">>, <<"/", "p", ";", "/">>, <<"/", "p", ";", "x", "/">>,
      <<"/", "p", "/", ";", "/">>, <<"/", "/">> }

NormUrls == { Url("https", Host, path, <<>>, fragment) : path \in NormPaths,
                                                         fragment \in {<<>>, <<"f">>} }

NormTags == { ATag(P(<<"/", "p", ";", "/">>)), ATag(P(<<"/", "p", ";">>)),
              ATag(P(<<"q", "/", ";", "/">>)) }

NormConfigs ==
    { [c EXCEPT !.start_url = u] :
        c \in { c \in AllConfigs : /\ c.max_depth = None /\ c.max_pages = None
                                   /\ c.output_folder # None /\ ~c.dry_run /\ ~c.pdfs_only },
        u \in NormUrls }

InitNorm == InitWith(NormConfigs, "off", NormTags, MaxSiteTags)

SpecNorm == InitNorm /\ [][Next]_vars

(***************************************************************************)
(* A site whose pages link to static assets, with and without a query      *)
(* string, and to URLs of other schemes.                                   *)
(***************************************************************************)
AssetTags ==
    { ATag(P(<<"/", "i", ".png">>)),
      ATag(Url("", "", <<"/", "i", ".png">>, <<"v=1">>, <<>>)),
      ATag(Url("ftp", Host, <<"/", "x">>, <<>>, <<>>)),
      ATag(P(<<"/", "p">>)) }

InitAsset == InitWith(SeenConfigs, "off", AssetTags, MaxSiteTags)

SpecAsset == InitAsset /\ [][Next]_vars

(***************************************************************************)
(* pipeline.py: PDFPipeline.process_single_pdf, one call.  Each script is  *)
(* run by run_command through subprocess.run; the crawler is not run.      *)
(***************************************************************************)
\* lines 22-28: self.scripts, in the order process_single_pdf runs them
Scripts == <<"pdf_to_md", "image_dedup", "image_to_text", "clean_md", "inject_descriptions">>

\* subprocess.run(cmd, check=True, ...): it returns ("ok"), raises
\* CalledProcessError on a non-zero exit ("fail"), or raises another exception
RunOutcomes == {"ok", "fail", "raise"}

Cmd(script, flags, outcome) == [script |-> script, flags |-> flags, outcome |-> outcome]

\* lines 35-58: run_command returns True, returns False when CalledProcessError is
\* caught, and lets every other exception through
run_command(outcome) ==
    IF outcome = "ok" THEN "True" ELSE IF outcome = "fail" THEN "False" ELSE "raised"

\* Path.mkdir(parents=True, exist_ok=True) on the images folder (pdf_to_md.py)
MkDir(folder) == IF folder = "absent" THEN "empty" ELSE folder

\* lines 80-86: the PDF must exist
CheckPdf ==
    /\ step = "start"
    /\ IF pdf_exists
       THEN step' = "extract" /\ returned' = returned
       ELSE step' = "done" /\ returned' = "False"
    /\ UNCHANGED <<pdf_args, pdf_exists, images_folder, duplicate_mapping, has_duplicates,
                   commands, extracted>>
    /\ UNCHANGED <<cfg, twin, first, prog, world, hist>>

\* lines 104-118: step 1, then the test for extracted images: the folder exists
\* and holds a *.png
ExtractPdf ==
    /\ step = "extract"
    /\ \E outcome \in RunOutcomes, made \in BOOLEAN, wrote \in BOOLEAN :
         LET folder == IF outcome = "ok"
                       THEN IF wrote THEN "pngs" ELSE MkDir(images_folder)
                       ELSE IF made THEN MkDir(images_folder) ELSE images_folder
         IN  /\ outcome = "ok" => made
             /\ outcome # "ok" => ~wrote
             /\ commands' = Append(commands,
                                   Cmd(Scripts[1], {"--with-images", "--images-dir"}, outcome))
             /\ images_folder' = folder
             /\ extracted' = IF outcome # "ok" THEN extracted
                             ELSE IF wrote THEN "some" ELSE "none"
             /\ IF run_command(outcome) # "True"
                THEN step' = "done" /\ returned' = run_command(outcome)
                ELSE IF folder # "pngs"
                     THEN step' = "done" /\ returned' = "True"
                     ELSE step' = "dedup" /\ returned' = returned
    /\ UNCHANGED <<pdf_args, pdf_exists, duplicate_mapping, has_duplicates>>
    /\ UNCHANGED <<cfg, twin, first, prog, world, hist>>

\* lines 120-136: step 2, then the test for the duplicate mapping file, which
\* image_dedup.py writes when it found duplicates
DedupImages ==
    /\ step = "dedup"
    /\ \E outcome \in RunOutcomes, found \in BOOLEAN :
         LET flags == {"--threshold"} \cup
                      (IF ~pdf_args.keep_duplicates THEN {"--delete"} ELSE {})
             mapping == duplicate_mapping \/ found
         IN  /\ outcome # "ok" => ~found
             /\ commands' = Append(commands, Cmd(Scripts[2], flags, outcome))
             /\ duplicate_mapping' = mapping
             /\ IF run_command(outcome) # "True"
                THEN /\ step' = "done" /\ returned' = run_command(outcome)
                     /\ has_duplicates' = has_duplicates
                ELSE /\ step' = "describe" /\ returned' = returned
                     /\ has_duplicates' = mapping
    /\ UNCHANGED <<pdf_args, pdf_exists, images_folder, extracted>>
    /\ UNCHANGED <<cfg, twin, first, prog, world, hist>>

\* lines 138-148 and 151, 159-163: step 3, then the choice of step 4
DescribeImages ==
    /\ step = "describe"
    /\ \E outcome \in RunOutcomes :
         LET flags == {"--folder", "--output"} \cup
                      (IF pdf_args.api_key # None THEN {"--api-key"} ELSE {})
         IN  /\ commands' = Append(commands, Cmd(Scripts[3], flags, outcome))
             /\ IF run_command(outcome) # "True"
                THEN step' = "done" /\ returned' = run_command(outcome)
                ELSE /\ step' = IF has_duplicates THEN "clean" ELSE "inject"
                     /\ returned' = returned
    /\ UNCHANGED <<pdf_args, pdf_exists, images_folder, duplicate_mapping, has_duplicates,
                   extracted>>
    /\ UNCHANGED <<cfg, twin, first, prog, world, hist>>

\* lines 151-158: step 4
CleanMarkdown ==
    /\ step = "clean"
    /\ \E outcome \in RunOutcomes :
         /\ commands' = Append(commands, Cmd(Scripts[4], {"--mapping"}, outcome))
         /\ IF run_command(outcome) # "True"
            THEN step' = "done" /\ returned' = run_command(outcome)
            ELSE step' = "inject" /\ returned' = returned
    /\ UNCHANGED <<pdf_args, pdf_exists, images_folder, duplicate_mapping, has_duplicates,
                   extracted>>
    /\ UNCHANGED <<cfg, twin, first, prog, world, hist>>

\* lines 165-185: step 5 and the return
InjectDescriptions ==
    /\ step = "inject"
    /\ \E outcome \in RunOutcomes :
         /\ commands' = Append(commands,
                               Cmd(Scripts[5], {"--descriptions", "--format"}, outcome))
         /\ step' = "done"
         /\ returned' = run_command(outcome)
    /\ UNCHANGED <<pdf_args, pdf_exists, images_folder, duplicate_mapping, has_duplicates,
                   extracted>>
    /\ UNCHANGED <<cfg, twin, first, prog, world, hist>>

\* the arguments of a call and the files it may find: the images folder of a PDF
\* of the same stem may be there from an earlier call
InitPipeline ==
    /\ InitCrawl({CHOOSE c \in SeenConfigs : c.dry_run}, "off", {}, 0)
    /\ step = "start"
    /\ pdf_args \in [keep_duplicates : BOOLEAN, api_key : {None, Some("key")}]
    /\ pdf_exists \in BOOLEAN
    /\ images_folder \in {"absent", "empty", "pngs"}
    /\ duplicate_mapping \in BOOLEAN
    /\ duplicate_mapping => images_folder # "absent"
    /\ has_duplicates = FALSE
    /\ returned = ""
    /\ commands = <<>>
    /\ extracted = ""

NextPipeline ==
    \/ CheckPdf
    \/ ExtractPdf
    \/ DedupImages
    \/ DescribeImages
    \/ CleanMarkdown
    \/ InjectDescriptions

SpecPipeline == InitPipeline /\ [][NextPipeline]_vars


(***************************************************************************)
(* Properties.                                                             *)
(***************************************************************************)
Indices(seq) == 1..Len(seq)
NoRepeats(seq) == \A i, j \in Indices(seq) : seq[i] = seq[j] => i = j
Urls(tasks) == [i \in Indices(tasks) |-> tasks[i].url]
CountOf(seq, Test(_)) == Cardinality({ i \in Indices(seq) : Test(seq[i]) })

IsCrawled(e) == e.type = "page" /\ e.status = "crawled"
IsDownloaded(e) == e.type = "pdf" /\ e.status = "downloaded"

\* C1: no normalized URL is passed to page.goto twice in a run; a URL is in the
\* visited set before it is fetched, a dequeued URL found in the visited set is
\* dropped without a fetch, and so a URL whose fetch failed is not fetched again.
C1_FetchedAtMostOnce ==
    /\ NoRepeats(Urls(fetched))
    /\ \A i \in Indices(fetched) : fetched[i].url \in visited
    /\ pc = "fetch" => /\ cur.url \in visited
                       /\ \A i \in Indices(fetched) : fetched[i].url # cur.url
    /\ \A i \in Indices(discarded) :
         discarded[i].why = "visited" => discarded[i].task.url \in visited

\* a URL whose fetch failed came off the frontier a second time and was dropped
C1_Witness ==
    \E i \in Indices(discarded), j \in Indices(errors), k \in Indices(fetched) :
        /\ discarded[i].why = "visited"
        /\ errors[j][1] = discarded[i].task.url
        /\ fetched[k].url = discarded[i].task.url
        /\ pc = "done"

\* C2: each PDF URL is downloaded at most once in a run and has at most one log
\* entry with status downloaded, however it is met.
C2_OneDownloadPerPdf ==
    /\ NoRepeats(pdf_gets)
    /\ \A i, j \in Indices(crawl_log) :
         IsDownloaded(crawl_log[i]) /\ IsDownloaded(crawl_log[j])
         /\ crawl_log[i].url = crawl_log[j].url => i = j

\* C3: with a max page count given, 0 included, the crawled page entries of the log
\* never outnumber it.
C3_PageBound ==
    cfg.max_pages # None => CountOf(crawl_log, IsCrawled) <= cfg.max_pages[1]

\* no fetch is deeper than the max depth; with max depth 0 only the start URL
C4_DepthBoundState ==
    cfg.max_depth # None =>
        /\ \A i \in Indices(fetched) : fetched[i].depth <= cfg.max_depth[1]
        /\ pc = "fetch" => cur.depth <= cfg.max_depth[1]
        /\ cfg.max_depth[1] = 0 =>
             \A i \in Indices(fetched) : fetched[i].url = normalize_url(cfg.start_url)

\* dequeuing a task beyond the max depth only drops it
C4_DeepTaskDropped ==
    (/\ pc = "loop" /\ queue # <<>> /\ queue' = Tail(queue)
     /\ cfg.max_depth # None /\ Head(queue).depth > cfg.max_depth[1]
     /\ Head(queue).url \notin visited)
    => /\ pc' = "loop"
       /\ discarded' = Append(discarded, [task |-> Head(queue), why |-> "depth"])
       /\ UNCHANGED <<visited, fetched, crawl_log, errors, all_pages, all_pdfs,
                      pages_crawled, files>>

\* C4: with a max depth given, 0 included, no task deeper than it is fetched; such a
\* task is dropped when dequeued, leaving the visited set, the fetches and the log
\* as they were; with max depth 0 only the start page is fetched.
C4_DepthBound == []C4_DepthBoundState /\ [][C4_DeepTaskDropped]_vars

\* a task beyond the max depth was put on the frontier, dequeued and dropped
C4_Witness ==
    /\ cfg.max_depth # None
    /\ \E i \in Indices(discarded) :
         /\ discarded[i].why = "depth"
         /\ discarded[i].task.depth > cfg.max_depth[1]
         /\ discarded[i].task.url \notin visited
    /\ pc = "done"

\* C5: every task on the frontier has the host of the start URL; none has another
\* host and none has an empty host.
C5_SameHost ==
    \A i \in Indices(queue) : queue[i].url.netloc = base_domain


\* C6: tasks leave the frontier in non-decreasing depth order: the frontier is
\* sorted by depth and no task on it is shallower than the task dequeued last.
C6_BreadthFirst ==
    /\ \A i, j \in Indices(queue) : i < j => queue[i].depth <= queue[j].depth
    /\ \A i \in Indices(queue) : cur.depth <= queue[i].depth

\* a task is handled while the frontier holds tasks of its depth and deeper ones
C6_Witness ==
    /\ pc = "fetch"
    /\ \E i, j \in Indices(queue) :
         cur.depth = queue[i].depth /\ queue[i].depth < queue[j].depth


\* every iteration returns to the head of the loop; the loop has two exits
C7_IterationReturns ==
    /\ pc = "fetch" => pc' = "loop"
    /\ (pc' = "after_loop" /\ pc # "after_loop")
       => (pc = "loop" /\ (queue = <<>> \/ BoundReached))

\* at the head of the loop the next task can be dequeued
C7_LoopGoesOn == (pc = "loop" /\ queue # <<>> /\ ~BoundReached) => ENABLED Dequeue

\* C7: a failure in one iteration (an exception, no response, an HTTP error, a failed
\* download, a failed write) never ends the run: every iteration leads back to the
\* head of the loop, where the next task can be dequeued, and the loop is left only
\* on an empty frontier or at the page bound.
C7_FailureNeverEndsRun == []C7_LoopGoesOn /\ [][C7_IterationReturns]_vars

\* after an exception, an unanswered fetch, an HTTP error and a failed download have
\* all been met, a further task is being fetched
C7_Witness ==
    /\ pc = "fetch"
    /\ \E j \in Indices(errors) : errors[j][2] \in {"Timeout", "write failed"}
    /\ \E j \in Indices(errors) : errors[j][2] \in {"No response", "download failed", "HTTP 404"}

\* C8: every (url, message) pair put on the errors list has exactly one log entry
\* with status error, that URL and that message.
C8_ErrorsLogged ==
    \A j \in Indices(errors) :
        Cardinality({ i \in Indices(crawl_log) :
                        /\ crawl_log[i].status = "error"
                        /\ crawl_log[i].url = errors[j][1]
                        /\ crawl_log[i].error = errors[j][2] })
        = Cardinality({ k \in Indices(errors) : errors[k] = errors[j] })

\* the dry run wrote no file, called neither download_pdf nor html_to_markdown,
\* and logged every page crawled and every PDF met (a PDF with status found)
DryRunOnlyLogs ==
    /\ files = {} /\ downloaded_pdfs = <<>> /\ saved_md_files = <<>>
    /\ pdf_gets = <<>> /\ md_calls = <<>>
    /\ dirs \subseteq {cfg.output_folder}
    /\ \A u \in all_pages :
         \E i \in Indices(crawl_log) : crawl_log[i].type = "page" /\ crawl_log[i].url = u
    /\ \A u \in all_pdfs :
         \E i \in Indices(crawl_log) :
             /\ crawl_log[i].type = "pdf" /\ crawl_log[i].url = u
             /\ crawl_log[i].status = "found"

\* the run ended with one report, which holds the whole log and has a row
OneFullReport ==
    /\ Len(reports) = 1
    /\ reports[1].rows = crawl_log
    /\ reports[1].rows # <<>>

NoWriteFailed == \A u \in DOMAIN site : site[u].md = "ok"

C11_LoopLeftAtEnd ==
    pc \in {"after_loop", "done"} =>
        \/ queue = <<>>
        \/ cfg.max_pages # None /\ pages_crawled >= cfg.max_pages[1]

IsPageOutcome(e) == e.type = "page" /\ e.status \in {"crawled", "error"}

\* fetches that leave no page-type entry: no response, a PDF, another content type
LeftNoPageEntry(r) ==
    \/ r.kind = "none"
    \/ r.kind = "resp" /\ r.ctype \in PdfTypes \cup OtherTypes

SavedBefore(i) ==
    { crawl_log[j].saved_as : j \in { j \in 1..(i - 1) : IsDownloaded(crawl_log[j]) } }

\* name with the suffix _k put before its final ".pdf"
SuffixedBeforePdf(name, k) ==
    IF k = 0 THEN name
    ELSE SubSeq(name, 1, Len(name) - 1) \o <<"_" \o ToString(k), ".pdf">>

\* name with the suffix _k put where os.path.splitext splits it: a name that is
\* ".pdf" alone has no extension, and the suffix comes after it
SuffixedAtSplitext(name, k) ==
    IF k > 0 /\ Len(name) = 1 THEN name \o <<"_" \o ToString(k)>>
    ELSE SuffixedBeforePdf(name, k)

\* the first of name, name_1, name_2, ... that is not among taken
FirstUnused(name, taken, Suffixed(_, _)) ==
    LET path(k) == JoinPath(pdf_folder, Suffixed(name, k))
        k0 == CHOOSE k \in 0..Cardinality(taken) :
                  /\ path(k) \notin taken
                  /\ \A j \in 0..(k - 1) : path(j) \in taken
    IN  path(k0)

\* no download wrote to a path already written
NeverOverwrites ==
    /\ \A i \in Indices(crawl_log) :
         IsDownloaded(crawl_log[i]) => crawl_log[i].saved_as \notin SavedBefore(i)
    /\ Cardinality({ f \in files : StartsWith(f, pdf_folder) })
         = CountOf(crawl_log, IsDownloaded)
    /\ \A i \in Indices(crawl_log) : IsDownloaded(crawl_log[i]) => crawl_log[i].saved_as \in files

SavedAsFirstUnused(Suffixed(_, _)) ==
    \A i \in Indices(crawl_log) :
        IsDownloaded(crawl_log[i]) =>
            crawl_log[i].saved_as
              = FirstUnused(PdfFilename(crawl_log[i].url), SavedBefore(i), Suffixed)

\* C13 as stated: download_pdf never writes to a path that exists, and saves to the
\* first unused of name, name_1, name_2, ..., the suffix put before the extension .pdf.
C13_SuffixBeforePdf == NeverOverwrites /\ SavedAsFirstUnused(SuffixedBeforePdf)

\* C13, amended: download_pdf never writes to a path that exists, and saves to the
\* first unused of name, name_1, name_2, ..., the suffix put before the extension
\* that os.path.splitext finds: after the whole name when the name is ".pdf" alone.
C13_NeverOverwrites == NeverOverwrites /\ SavedAsFirstUnused(SuffixedAtSplitext)

\* three downloads named a.pdf were saved as a.pdf, a_1.pdf and a_2.pdf
C13_Witness ==
    LET a == <<"a", ".pdf">>
    IN  /\ \A k \in 0..2 : JoinPath(pdf_folder, SuffixedBeforePdf(a, k)) \in files
        /\ \E i, j \in Indices(crawl_log) :
             /\ i < j
             /\ IsDownloaded(crawl_log[i]) /\ IsDownloaded(crawl_log[j])
             /\ crawl_log[i].url # crawl_log[j].url
             /\ crawl_log[i].saved_as = JoinPath(pdf_folder, a)
             /\ crawl_log[j].saved_as = JoinPath(pdf_folder, SuffixedBeforePdf(a, 1))

\* C14: in a full crawl with an output folder, after the run the number of distinct
\* Markdown files written equals the number of crawled pages, and no page's file
\* was written over by the file of another page.
C14_OneMarkdownFilePerPage ==
    (pc = "done" /\ Converting) =>
        /\ Cardinality({ f \in files : StartsWith(f, md_folder) })
             = CountOf(crawl_log, IsCrawled)
        /\ NoRepeats(saved_md_files)

\* C15: every fetched response with status 400 or above is classed as an error
\* whatever its content type: the URL has an error entry in the log, and no entry
\* as a crawled page or as a PDF met as a response (so it was not skipped either).
C15_ErrorStatusIsError ==
    \A u \in DOMAIN site :
        (site[u].kind = "resp" /\ site[u].status >= HttpErrorFloor) =>
            /\ \E i \in Indices(crawl_log) :
                 crawl_log[i].url = u /\ crawl_log[i].status = "error"
            /\ \A i \in Indices(crawl_log) :
                 crawl_log[i].url = u =>
                     /\ ~IsCrawled(crawl_log[i])
                     /\ ~(crawl_log[i].type = "pdf" /\ crawl_log[i].found_on = DirectMark
                          /\ crawl_log[i].status \in {"found", "downloaded"})

\* C16: every network request of a run, page fetch and PDF download alike, comes
\* right after a wait of the configured delay.
C16_DelayBeforeEveryRequest ==
    \A i \in Indices(net) :
        net[i].op \in {"goto", "get"} => (i > 1 /\ net[i - 1] = Sleep(cfg.delay))

\* C17: with the no-report flag given the run writes no report file, whatever the
\* output folder and the mode.
C17_NoReportWritesNone == cfg.no_report => reports = <<>>

\* C18: when the entry point ends a run in which no page was crawled, the exit
\* status is not zero.
C18_NoPageExitsNonZero ==
    (pc = "done" /\ pages_crawled = 0) => main_exit_status(results) # 0

\* C19: a run of the entry point that completed with errors recorded ends with a
\* non-zero exit status.
C19_ErrorsExitNonZero ==
    (pc = "done" /\ results # None /\ errors # <<>>) => main_exit_status(results) # 0

\* C20: when the start URL has no host the crawl never starts: crawl() returns
\* None, and no directory is created, no browser launched, no URL fetched, no
\* request made and no file or report written.
C20_NoHostNeverStarts ==
    cfg.start_url.netloc = "" =>
        /\ pc \in {"start", "done"}
        /\ results = None
        /\ dirs = {} /\ files = {} /\ reports = <<>>
        /\ browser = "off"
        /\ queue = <<>> /\ visited = {}
        /\ fetched = <<>> /\ net = <<>> /\ crawl_log = <<>>

\* crawl() has returned for a start URL without host, called with an output
\* folder and a report path
C20_Witness ==
    /\ cfg.start_url.netloc = ""
    /\ pc = "done"
    /\ cfg.output_folder # None /\ cfg.report_path # None /\ ~cfg.dry_run

\* the browser is open all through the loop and closed when crawl() has returned
C21_BrowserState ==
    /\ pc = "start" => browser = "off"
    /\ pc \in {"loop", "fetch", "after_loop"} => browser = "open"
    /\ (pc = "done" /\ ~NoHost) => browser = "closed"

\* the browser is launched once, before any task is dequeued, and closed once,
\* after the loop
C21_BrowserSteps ==
    /\ (browser' = "open" /\ browser # "open")
       => (browser = "off" /\ pc = "start" /\ fetched = <<>> /\ discarded = <<>>)
    /\ (browser' = "closed" /\ browser # "closed")
       => (browser = "open" /\ pc = "after_loop" /\ pc' = "done")
    /\ browser = "closed" => browser' = "closed"

\* C21: the browser is launched once before the first task is dequeued and closed
\* exactly once after the loop, on every way the loop can end: frontier empty, page
\* bound reached, or after tasks that failed.
C21_BrowserLaunchedAndClosedOnce ==
    /\ []C21_BrowserState
    /\ [][C21_BrowserSteps]_vars
    /\ <>(browser = "closed")

\* a run with a failed task ended at the page bound, tasks left, browser closed
C21_Witness ==
    /\ pc = "done" /\ browser = "closed"
    /\ errors # <<>>
    /\ queue # <<>> /\ BoundReached

\* the crawled pages whose only content is the link to report.pdf
ReportOnlyPages ==
    { u \in DOMAIN site :
        /\ site[u].kind = "resp" /\ site[u].tags = {ReportLink}
        /\ \E i \in Indices(crawl_log) : crawl_log[i].url = u /\ IsCrawled(crawl_log[i]) }

\* the log entries of type pdf for the PDF that page u links to
ReportEntries(u) ==
    { i \in Indices(crawl_log) :
        /\ crawl_log[i].type = "pdf"
        /\ crawl_log[i].url = normalize_url(urljoin(u, ReportLink.ref)) }

\* C22: after a run that crawled a page whose only content is a link to report.pdf
\* the log has exactly one pdf entry for that PDF, its found_on is the page's URL,
\* and outside dry-run (into an output folder, the download succeeding) the entry
\* has status downloaded, the saved file is named report.pdf and size_kb is set.
C22_OneEntryForLinkedPdf ==
    pc = "done" =>
        \A u \in ReportOnlyPages :
            /\ Cardinality(ReportEntries(u)) = 1
            /\ \A i \in ReportEntries(u) :
                 /\ crawl_log[i].found_on = u
                 /\ (Downloading /\ crawl_log[i].error = "") =>
                      /\ crawl_log[i].status = "downloaded"
                      /\ crawl_log[i].saved_as = JoinPath(pdf_folder, <<"report", ".pdf">>)
                      /\ crawl_log[i].size_kb # ""

\* C23: normalize_url is idempotent: every URL that normalize_url returned (the
\* URL of every frontier task, and so every visited URL) is normalized to itself
\* by a second call.
C23_NormalizeIdempotent ==
    \A i \in Indices(queue) : normalize_url(queue[i].url) = queue[i].url

\* C24: every step that puts tasks on the frontier, other than the start, is the
\* handling of an HTML page that gets its crawled entry in that step, and the new
\* tasks have the page's depth plus one; so the handling of a PDF response, of
\* another content-type, of an HTTP error or of a failed fetch enqueues nothing.
C24_EnqueuedFromCrawledPage ==
    [][Len(queue') > Len(queue) /\ pc # "start"
        => /\ SubSeq(queue', 1, Len(queue)) = queue
           /\ \A i \in (Len(queue) + 1)..Len(queue') : queue'[i].depth = cur.depth + 1
           /\ Len(crawl_log') > Len(crawl_log)
           /\ LET e == crawl_log'[Len(crawl_log')]
              IN  IsCrawled(e) /\ e.url = cur.url /\ e.depth = cur.depth]_vars

\* a task found on the start page is waiting, after the handling of another such
\* task ended in an HTTP error and enqueued nothing
C24_Witness ==
    /\ \E i \in Indices(queue) : queue[i].depth = 1
    /\ \E i \in Indices(crawl_log) : crawl_log[i].type = "page" /\ crawl_log[i].status = "error"

\* C25: in the summary a run returns, pages_crawled is the number of page entries
\* of the crawl log whose status is crawled, also when the saving of a page's
\* Markdown failed.
C25_PagesCrawledCountsEntries ==
    results # None => results[1].pages_crawled = CountOf(crawl_log, IsCrawled)

\* C26: no frontier task has a URL of a scheme other than http and https, nor a
\* URL whose path ends in a denylisted static-asset extension, whether a query
\* string comes after the path or not.
C26_NoAssetOnFrontier ==
    \A i \in Indices(queue) :
        LET u == queue[i].url
            path == ParsedPath(u)
        IN  /\ u.scheme \in {"http", "https"}
            /\ ~(path # <<>> /\ path[Len(path)] \in SkipExts)

\* the pdf entries found on the page of the crawled entry k are the entries right
\* before k: none of them is after k, and nothing of another task is in between
PdfEntriesRightBefore(log, k) ==
    \A i \in Indices(log) :
        log[i].type = "pdf" /\ log[i].found_on = log[k].url
            => /\ i < k
               /\ \A j \in (i + 1)..(k - 1) :
                      log[j].type = "pdf" /\ log[j].found_on = log[k].url

LogOrdered == \A k \in Indices(crawl_log) :
                  IsCrawled(crawl_log[k]) => PdfEntriesRightBefore(crawl_log, k)

LogOnlyGrows == Len(crawl_log') >= Len(crawl_log)
                /\ SubSeq(crawl_log', 1, Len(crawl_log)) = crawl_log

\* C27: the crawl log is append-only (no step changes or removes an entry it
\* holds) and ordered by processing: the pdf entries found on a page that has a
\* crawled entry come after the entries of every task processed earlier and
\* before the page's own crawled entry.
C27_LogAppendOnlyAndOrdered == []LogOrdered /\ [][LogOnlyGrows]_vars

\* the log holds the entry of an earlier task, then a pdf entry found on a page,
\* then that page's crawled entry
C27_Witness ==
    \E k \in Indices(crawl_log) :
        /\ k >= 3
        /\ IsCrawled(crawl_log[k])
        /\ crawl_log[k - 1].type = "pdf" /\ crawl_log[k - 1].found_on = crawl_log[k].url
        /\ crawl_log[k - 2].type = "page" /\ crawl_log[k - 2].url # crawl_log[k].url

\* C28: in the summary a run returns, pdfs_downloaded (the number of PDF files
\* saved) is at most pdfs_found (the number of distinct PDF URLs found).
C28_DownloadedAtMostFound ==
    results # None => results[1].pdfs_downloaded <= results[1].pdfs_found

\* C29: every entry of the crawl log with status error, of a page or of a PDF,
\* has a message that is not empty, and the errors list holds its URL with that
\* message.
C29_ErrorEntryHasMessage ==
    \A i \in Indices(crawl_log) :
        crawl_log[i].status = "error"
            => /\ crawl_log[i].error # ""
               /\ \E j \in Indices(errors) :
                      errors[j] = <<crawl_log[i].url, crawl_log[i].error>>

PositionOf(script) == CHOOSE i \in 1..Len(Scripts) : Scripts[i] = script

\* the scripts were run in the order extract, deduplicate, describe, clean, inject
RanInOrder ==
    \A i, j \in Indices(commands) :
        i < j => PositionOf(commands[i].script) < PositionOf(commands[j].script)

\* a step that failed is the last one run, and the result is False
FailureEndsCall ==
    \A i \in Indices(commands) :
        commands[i].outcome = "fail" => i = Len(commands) /\ returned = "False"

\* the clean step was run only with a duplicate mapping file
CleanOnlyWithMapping ==
    \A i \in Indices(commands) : commands[i].script = Scripts[4] => duplicate_mapping

\* an extraction that wrote no image is the only step run, and the result is True
NoImageSkipsTheRest == extracted = "none" => Len(commands) = 1 /\ returned = "True"

\* C30: process_single_pdf runs its steps in the order extract, deduplicate
\* images, describe images, clean Markdown, inject descriptions; a step that fails
\* is the last one run and the result is False; the clean step is run only when a
\* duplicate mapping file exists; when the extraction wrote no image, no later
\* step is run and the result is True.
C30_StepsInOrderOrSkipped ==
    RanInOrder /\ FailureEndsCall /\ CleanOnlyWithMapping /\ NoImageSkipsTheRest

====
